---- MODULE Spec2Model ----
(***************************************************************************)
(* Agenda import / lookup over a small SQLite wrapper.                     *)
(*                                                                         *)
(* Values are tagged: StrV(s) is a Python str / SQLite TEXT whose          *)
(* characters are the one-character strings of the sequence s, IntV(n) an  *)
(* integer, None the Python None / SQL NULL, NaN the missing cell of a     *)
(* dataframe, ListV(l) a Python list.                                      *)
(***************************************************************************)
EXTENDS Integers, Sequences, FiniteSets, TLC

VARIABLES
    db,                 \* interview_test.db: table name -> rows in rowid order
    pc,                 \* position of the running program
    excel_df,           \* import: the rows read from the spreadsheet
    index,              \* import: cursor of the loop of the current phase
    session_ids,        \* import: ids returned by the session inserts
    last_session_id,    \* import: id of the last row of type "Session"
    sessions_speakers,  \* import: pending (session id, name) pairs
    speaker_ids,        \* import: name -> speaker id
    column,             \* lookup: sys.argv[1]
    value,              \* lookup: " ".join(sys.argv[2:])
    all_matched_sessions, \* lookup: the list get_all_matches returned
    queries,            \* lookup: the selects the run has executed, in order
    stdout,             \* what the last program printed
    exit_status,        \* exit status of the last program (0, or 1 from sys.exit(1))
    codec_in,           \* codec: the value under test
    codec_out           \* codec: the value after the last codec call

vars == <<db, pc, excel_df, index, session_ids, last_session_id,
          sessions_speakers, speaker_ids, column, value,
          all_matched_sessions, queries, stdout, exit_status,
          codec_in, codec_out>>

import_vars == <<excel_df, index, session_ids, last_session_id,
                 sessions_speakers, speaker_ids>>
lookup_vars == <<column, value, all_matched_sessions, queries>>
codec_vars  == <<codec_in, codec_out>>

----------------------------------------------------------------------------
(* Tagged values *)

StrV(s)  == [str |-> s]
IntV(n)  == [int |-> n]
ListV(l) == [list |-> l]
None    == [none |-> TRUE]
NaN     == [nan |-> TRUE]

IsStr(v)  == "str" \in DOMAIN v
IsInt(v)  == "int" \in DOMAIN v
IsList(v) == "list" \in DOMAIN v

\* Characters the model treats as whitespace (str.strip with no argument)
WS == {" "}

DigitChars == <<"0", "1", "2", "3", "4", "5", "6", "7", "8", "9">>

RECURSIVE IntToChars(_)
IntToChars(n) ==
    IF n < 10 THEN <<DigitChars[n + 1]>>
    ELSE IntToChars(n \div 10) \o <<DigitChars[(n % 10) + 1]>>

DigitOf(c) == CHOOSE d \in 0..9 : DigitChars[d + 1] = c

IsIntChars(s) ==
    /\ s # <<>>
    /\ \A i \in 1..Len(s) : \E d \in 0..9 : DigitChars[d + 1] = s[i]

RECURSIVE CharsToInt(_)
CharsToInt(s) ==
    IF Len(s) = 1 THEN DigitOf(s[1])
    ELSE 10 * CharsToInt(SubSeq(s, 1, Len(s) - 1)) + DigitOf(s[Len(s)])

\* "%s" % v and str(v)
Format(v) ==
    IF IsStr(v) THEN v.str
    ELSE IF IsInt(v) THEN IntToChars(v.int)
    ELSE IF v = None THEN <<"N", "o", "n", "e">>
    ELSE <<"n", "a", "n">>

----------------------------------------------------------------------------
(* utils.py *)

RECURSIVE lstrip(_)
lstrip(s) == IF s # <<>> /\ Head(s) \in WS THEN lstrip(Tail(s)) ELSE s

RECURSIVE rstrip(_)
rstrip(s) ==
    IF s # <<>> /\ s[Len(s)] \in WS THEN rstrip(SubSeq(s, 1, Len(s) - 1)) ELSE s

strip(s) == rstrip(lstrip(s))

\* str.replace(old, new): leftmost, non-overlapping occurrences
RECURSIVE replace(_, _, _)
replace(s, old, new) ==
    IF Len(s) < Len(old) THEN s
    ELSE IF SubSeq(s, 1, Len(old)) = old
         THEN new \o replace(SubSeq(s, Len(old) + 1, Len(s)), old, new)
         ELSE <<Head(s)>> \o replace(Tail(s), old, new)

Apostrophe == <<"'">>
TwoApostrophes == <<"'", "'">>

\* preprocess_value without the trailing .strip()
preprocess_value_no_strip(v) ==
    IF IsStr(v) THEN StrV(replace(v.str, Apostrophe, TwoApostrophes))
    ELSE v

preprocess_value(v) ==
    IF IsStr(v) THEN StrV(strip(replace(v.str, Apostrophe, TwoApostrophes)))
    ELSE v

postprocess_value(v) ==
    IF IsStr(v) THEN StrV(replace(v.str, TwoApostrophes, Apostrophe))
    ELSE v

----------------------------------------------------------------------------
(* models.py *)

sessions_schema ==
    [columns |-> <<"id", "date", "time_start", "time_end", "title",
                   "location", "description", "supersession_id">>,
     types |-> [id |-> "INTEGER PRIMARY KEY AUTOINCREMENT",
                date |-> "VARCHAR(10)",
                time_start |-> "VARCHAR(8)",
                time_end |-> "VARCHAR(8)",
                title |-> "VARCHAR(255)",
                location |-> "VARCHAR(255)",
                description |-> "TEXT",
                supersession_id |-> "INTEGER"],
     constraints |-> <<"FOREIGN KEY (supersession_id) REFERENCES sessions(id)">>]

\* The association table declared without its PRIMARY KEY
sessions_speakers_schema_no_key ==
    [columns |-> <<"session_id", "speaker_id">>,
     types |-> [session_id |-> "INTEGER", speaker_id |-> "INTEGER"],
     constraints |-> <<"FOREIGN KEY (session_id) REFERENCES sessions(id)",
                       "FOREIGN KEY (speaker_id) REFERENCES speakers(id)">>]

sessions_speakers_schema ==
    [columns |-> <<"session_id", "speaker_id">>,
     types |-> [session_id |-> "INTEGER", speaker_id |-> "INTEGER"],
     constraints |-> <<"PRIMARY KEY (session_id, speaker_id)",
                       "FOREIGN KEY (session_id) REFERENCES sessions(id)",
                       "FOREIGN KEY (speaker_id) REFERENCES speakers(id)">>]

speakers_schema ==
    [columns |-> <<"id", "name">>,
     types |-> [id |-> "INTEGER PRIMARY KEY AUTOINCREMENT",
                name |-> "VARCHAR(255) UNIQUE"],
     constraints |-> << >>]

----------------------------------------------------------------------------
(* db_table.py, and the part of SQLite the generated statements rely on *)

Range(s) == {s[i] : i \in 1..Len(s)}

\* db_table.__init__: the fields of a table handle
db_table(name, schema) ==
    [name |-> name, columns |-> schema.columns, types |-> schema.types,
     constraints |-> schema.constraints]

\* Column affinity SQLite derives from a declared type
Affinity(type) ==
    IF type \in {"INTEGER", "INTEGER PRIMARY KEY AUTOINCREMENT"}
    THEN "INTEGER" ELSE "TEXT"

\* The column sets SQLite keeps unique for a table: a column declared UNIQUE
\* and a PRIMARY KEY (...) constraint.  FOREIGN KEY clauses are parsed but
\* not enforced: sqlite3.connect leaves PRAGMA foreign_keys at its default, off.
UniqueKeys(self) ==
    {{c} : c \in {c \in Range(self.columns) : self.types[c] = "VARCHAR(255) UNIQUE"}}
    \cup (IF "PRIMARY KEY (session_id, speaker_id)" \in Range(self.constraints)
          THEN {{"session_id", "speaker_id"}} ELSE {})

\* create_table as DROP TABLE IF EXISTS followed by CREATE TABLE
create_table_drop(d, self) ==
    (self.name :> << >>) @@ d

\* CREATE TABLE IF NOT EXISTS: an existing table is left as it is
create_table(d, self) ==
    IF self.name \in DOMAIN d THEN d ELSE d @@ (self.name :> << >>)

\* Value of the SQL string literal '<body>': a doubled apostrophe is one
SqlText(body) == replace(body, TwoApostrophes, Apostrophe)

\* A value stored in, or compared with, a column of the given affinity
ApplyAffinity(aff, v) ==
    IF aff = "INTEGER" /\ IsStr(v) /\ IsIntChars(v.str)
    THEN IntV(CharsToInt(v.str)) ELSE v

\* The value SQLite sees for "'%s'" % preprocess_value(v)
QuotedLiteral(v) == StrV(SqlText(Format(preprocess_value(v))))

\* The value SQLite sees for the bare token str(preprocess_value(v)) of an
\* IN list
BareLiteral(v) ==
    LET s == Format(preprocess_value(v))
    IN  IF IsIntChars(s) THEN IntV(CharsToInt(s)) ELSE StrV(s)

Keys(item) == {item[i][1] : i \in 1..Len(item)}
ValueOf(item, k) == item[CHOOSE i \in 1..Len(item) : item[i][1] = k][2]

\* db_table.insert on the rows of self's table.  item is a dict, as the
\* sequence of its <<key, value>> pairs.  ok = FALSE is sqlite3.IntegrityError.
insert(rows, self, item) ==
    LET rowid == Len(rows) + 1
        cell(c) ==
            IF c \in Keys(item)
            THEN ApplyAffinity(Affinity(self.types[c]), QuotedLiteral(ValueOf(item, c)))
            ELSE IF self.types[c] = "INTEGER PRIMARY KEY AUTOINCREMENT"
                 THEN IntV(rowid) ELSE None
        row == [c \in Range(self.columns) |-> cell(c)]
        violated ==
            \E key \in UniqueKeys(self) : \E i \in 1..Len(rows) :
                \A c \in key : row[c] # None /\ rows[i][c] = row[c]
    IN  [ok |-> ~violated,
         rows |-> IF violated THEN rows ELSE Append(rows, row),
         lastrowid |-> IntV(rowid)]

\* JOIN <right> ON <left>.<lc> = <right>.<rc>, as a nested loop in FROM order
RECURSIVE JoinRows(_, _, _)
JoinRows(d, bindings, j) ==
    IF bindings = << >> THEN << >>
    ELSE LET b == Head(bindings)
             on(r) == b[j[1].name][j[3]] # None /\ b[j[1].name][j[3]] = r[j[4]]
             matches == SelectSeq(d[j[2].name], on)
         IN  [i \in 1..Len(matches) |-> b @@ (j[2].name :> matches[i])]
             \o JoinRows(d, Tail(bindings), j)

RECURSIVE JoinAll(_, _, _)
JoinAll(d, bindings, join) ==
    IF join = << >> THEN bindings
    ELSE JoinAll(d, JoinRows(d, bindings, Head(join)), Tail(join))

sessions_table == db_table("sessions", sessions_schema)
speakers_table == db_table("speakers", speakers_schema)
sessions_speakers_table == db_table("sessions_speakers", sessions_speakers_schema)

Handles == {sessions_table, speakers_table, sessions_speakers_table}

HandleOf(name) == CHOOSE h \in Handles : h.name = name

\* The joined table an unqualified column name refers to
TableOfColumn(b, c) == CHOOSE t \in DOMAIN b : c \in Range(HandleOf(t).columns)

\* "<k> IN (...)" for a list value (the key "id NOT" renders "id NOT IN"),
\* "<k> = '<v>'" otherwise
WhereHolds(b, k, v) ==
    LET c == IF k = "id NOT" THEN "id" ELSE k
        t == TableOfColumn(b, c)
        cell == b[t][c]
    IN  IF IsList(v)
        THEN LET items == {BareLiteral(x) : x \in Range(v.list)}
             IN  /\ cell # None
                 /\ IF k = "id NOT" THEN cell \notin items ELSE cell \in items
        ELSE /\ cell # None
             /\ cell = ApplyAffinity(Affinity(HandleOf(t).types[c]), QuotedLiteral(v))

\* db_table.select: rows of self joined as asked, filtered by the AND of the
\* where conditions, projected on columns (all of self's when empty) and
\* decoded.  Rows come in the order of a scan of self by rowid.
select(d, self, columns, join, where) ==
    LET cols == IF columns = << >> THEN self.columns ELSE columns
        from == [i \in 1..Len(d[self.name]) |-> (self.name :> d[self.name][i])]
        keep(b) == \A i \in 1..Len(where) : WhereHolds(b, where[i][1], where[i][2])
        found == SelectSeq(JoinAll(d, from, join), keep)
        out(b, c) == IF c = cols[1] THEN b[self.name][c] ELSE b[TableOfColumn(b, c)][c]
    IN  [i \in 1..Len(found) |->
            [c \in Range(cols) |-> postprocess_value(out(found[i], c))]]

----------------------------------------------------------------------------
(* constants.py *)

EXCEL_COLUMNS ==
    <<"date", "time_start", "time_end", "session_type", "title", "location",
      "description", "speakers">>

SESSIONS_COLUMNS ==
    <<"date", "time_start", "time_end", "title", "location", "description">>

QUERY_COLUMNS ==
    <<"date", "time_start", "time_end", "title", "location", "description",
      "speaker">>

DISPLAY_COLUMNS ==
    <<"title", "date", "time_start", "time_end", "location", "description">>

----------------------------------------------------------------------------
(* Bounds and input domains *)

\* Rows of one spreadsheet
MaxRows == 3
\* Sessions the store holds over all import runs
MaxSessions == 3
\* Characters of a value given to the codec
MaxLen == 4

TypeSession == StrV(<<"S", "e", "s", "s", "i", "o", "n">>)
TypeSub     == StrV(<<"S", "u", "b">>)
TypeBreak   == StrV(<<"B", "r", "e", "a", "k">>)

ExcelRow(type, title, speakers) ==
    [date |-> NaN, time_start |-> NaN, time_end |-> NaN, session_type |-> type,
     title |-> title, location |-> NaN, description |-> NaN,
     speakers |-> speakers]

TextT == StrV(<<"T">>)
TextA == StrV(<<"A">>)
TextAB == StrV(<<" ", "A", ";", "B">>)
TextAA == StrV(<<"A", ";", "A">>)

\* The rows a spreadsheet is made of: the three kinds of session type, rows
\* with and without a title and speakers, a name with and without surrounding
\* whitespace, a name twice in one cell
ExcelRows ==
    {ExcelRow(TypeSession, TextT, TextA),
     ExcelRow(TypeSession, NaN, TextAB),
     ExcelRow(TypeSub, NaN, NaN),
     ExcelRow(TypeSub, TextT, TextA),
     ExcelRow(TypeSub, NaN, TextAA),
     ExcelRow(TypeBreak, TextT, TextAB)}

Dataframes(n) == [1..n -> ExcelRows]

LookupColumns == {"title", "speaker"}
LookupValues == {TextT, TextA}

----------------------------------------------------------------------------
(* import_agenda.py *)

\* str.split(sep) for a one-character separator
RECURSIVE split(_, _)
split(s, sep) ==
    IF \A i \in 1..Len(s) : s[i] # sep THEN <<s>>
    ELSE LET i == CHOOSE i \in 1..Len(s) :
                     s[i] = sep /\ \A j \in 1..(i - 1) : s[j] # sep
         IN  <<SubSeq(s, 1, i - 1)>> \o split(SubSeq(s, i + 1, Len(s)), sep)

\* speaker_names of one row: the trimmed pieces of str(speakers).split(";")
speaker_names(speakers) ==
    LET pieces == split(Format(speakers), ";")
    IN  [i \in 1..Len(pieces) |-> StrV(strip(pieces[i]))]

\* The (row index, name) pairs the nested loops of process_speaker_data pass
\* through, rows with a missing speakers cell skipped
RECURSIVE NamesFrom(_, _)
NamesFrom(df, i) ==
    IF i > Len(df) THEN << >>
    ELSE (IF df[i].speakers = NaN THEN << >>
          ELSE LET names == speaker_names(df[i].speakers)
               IN  [k \in 1..Len(names) |-> <<i, names[k]>>])
         \o NamesFrom(df, i + 1)

AllNames(df) == NamesFrom(df, 1)

\* {key: row[key] for key in SESSIONS_COLUMNS if pd.notna(row[key])}
session_data_of(row) ==
    LET all == [i \in 1..Len(SESSIONS_COLUMNS) |->
                   <<SESSIONS_COLUMNS[i], row[SESSIONS_COLUMNS[i]]>>]
        present(kv) == kv[2] # NaN
    IN  SelectSeq(all, present)

\* last_session_id moved on every row that is not a "Sub"
next_last_session_id_non_sub(row, last, id) ==
    IF row.session_type # TypeSub THEN id ELSE last

\* if row["session_type"] == "Session": last_session_id = session_ids[index]
next_last_session_id(row, last, id) ==
    IF row.session_type = TypeSession THEN id ELSE last

\* The association row with its two values exchanged
association_item_swapped(pair, cache) ==
    << <<"session_id", cache[pair[2]]>>, <<"speaker_id", pair[1]>> >>

\* {'session_id': session_id, 'speaker_id': speaker_ids[name]}
association_item(pair, cache) ==
    << <<"session_id", pair[1]>>, <<"speaker_id", cache[pair[2]]>> >>

ProgramNotRunning == pc \in {"shell", "import_exit", "lookup_exit"}

\* except Exception: print, sys.exit(1)
ImportFails ==
    /\ pc' = "import_exit"
    /\ exit_status' = 1
    /\ stdout' = <<[error |-> "Error occured"]>>

\* main of import_agenda.py up to the first statement of process_session_data:
\* the dataframe is read and the three table handles are constructed
ImportStart(df) ==
    /\ ProgramNotRunning
    /\ db' = create_table(create_table(create_table(db, sessions_table),
                                       speakers_table), sessions_speakers_table)
    /\ excel_df' = df
    /\ index' = 1
    /\ session_ids' = << >>
    /\ last_session_id' = None
    /\ sessions_speakers' = << >>
    /\ speaker_ids' = << >>
    /\ pc' = IF df = << >> THEN "import_exit" ELSE "sessions"
    /\ exit_status' = 0
    /\ stdout' = << >>
    /\ column' = None /\ value' = None
    /\ all_matched_sessions' = << >> /\ queries' = << >>
    /\ UNCHANGED codec_vars

\* One iteration of the loop of process_session_data
ProcessSessionRow ==
    /\ pc = "sessions"
    /\ LET row == excel_df[index]
           session_data ==
               session_data_of(row)
               \o (IF row.session_type = TypeSub
                   THEN << <<"supersession_id", last_session_id>> >> ELSE << >>)
           r == insert(db["sessions"], sessions_table, session_data)
       IN  IF r.ok
           THEN /\ db' = [db EXCEPT !["sessions"] = r.rows]
                /\ session_ids' = Append(session_ids, r.lastrowid)
                /\ last_session_id' =
                       next_last_session_id(row, last_session_id, r.lastrowid)
                /\ IF index < Len(excel_df)
                   THEN index' = index + 1 /\ pc' = "sessions"
                   ELSE /\ index' = 1
                        /\ pc' = IF AllNames(excel_df) = << >>
                                 THEN "import_exit" ELSE "speakers"
                /\ UNCHANGED <<exit_status, stdout>>
           ELSE /\ ImportFails
                /\ UNCHANGED <<db, session_ids, last_session_id, index>>
    /\ UNCHANGED <<excel_df, sessions_speakers, speaker_ids>>
    /\ UNCHANGED <<lookup_vars, codec_vars>>

\* The inner loop asking the name -> id dict of the run, not the speakers
\* table, whether the speaker exists
ProcessSpeakerNameCacheOnly ==
    /\ pc = "speakers"
    /\ LET at == AllNames(excel_df)[index]
           name == at[2]
           speaker_data == << <<"name", name>> >>
           speakers_match ==
               IF name \in DOMAIN speaker_ids
               THEN <<[id |-> speaker_ids[name]]>> ELSE << >>
           r == insert(db["speakers"], speakers_table, speaker_data)
           advance ==
               /\ sessions_speakers' =
                      Append(sessions_speakers, <<session_ids[at[1]], name>>)
               /\ IF index < Len(AllNames(excel_df))
                  THEN index' = index + 1 /\ pc' = "speakers"
                  ELSE index' = 1 /\ pc' = "associations"
               /\ UNCHANGED <<exit_status, stdout>>
       IN  IF speakers_match # << >>
           THEN /\ speaker_ids' = (name :> speakers_match[1].id) @@ speaker_ids
                /\ UNCHANGED db
                /\ advance
           ELSE IF r.ok
           THEN /\ speaker_ids' = (name :> r.lastrowid) @@ speaker_ids
                /\ db' = [db EXCEPT !["speakers"] = r.rows]
                /\ advance
           ELSE /\ ImportFails
                /\ sessions_speakers' =
                       Append(sessions_speakers, <<session_ids[at[1]], name>>)
                /\ UNCHANGED <<db, speaker_ids, index>>
    /\ UNCHANGED <<excel_df, session_ids, last_session_id>>
    /\ UNCHANGED <<lookup_vars, codec_vars>>

\* One iteration of the inner loop of process_speaker_data: the pending
\* pair, the select by name, the insert of a speaker not found
ProcessSpeakerName ==
    /\ pc = "speakers"
    /\ LET at == AllNames(excel_df)[index]
           name == at[2]
           speaker_data == << <<"name", name>> >>
           speakers_match ==
               select(db, speakers_table, <<"id">>, << >>, speaker_data)
           r == insert(db["speakers"], speakers_table, speaker_data)
           advance ==
               /\ sessions_speakers' =
                      Append(sessions_speakers, <<session_ids[at[1]], name>>)
               /\ IF index < Len(AllNames(excel_df))
                  THEN index' = index + 1 /\ pc' = "speakers"
                  ELSE index' = 1 /\ pc' = "associations"
               /\ UNCHANGED <<exit_status, stdout>>
       IN  IF speakers_match # << >>
           THEN /\ speaker_ids' = (name :> speakers_match[1].id) @@ speaker_ids
                /\ UNCHANGED db
                /\ advance
           ELSE IF r.ok
           THEN /\ speaker_ids' = (name :> r.lastrowid) @@ speaker_ids
                /\ db' = [db EXCEPT !["speakers"] = r.rows]
                /\ advance
           ELSE /\ ImportFails
                /\ sessions_speakers' =
                       Append(sessions_speakers, <<session_ids[at[1]], name>>)
                /\ UNCHANGED <<db, speaker_ids, index>>
    /\ UNCHANGED <<excel_df, session_ids, last_session_id>>
    /\ UNCHANGED <<lookup_vars, codec_vars>>

\* The last loop with the insert's error caught inside the loop
InsertAssociationContinue ==
    /\ pc = "associations"
    /\ LET pair == sessions_speakers[index]
           r == insert(db["sessions_speakers"], sessions_speakers_table,
                       association_item(pair, speaker_ids))
       IN  IF r.ok
           THEN /\ db' = [db EXCEPT !["sessions_speakers"] = r.rows]
                /\ IF index < Len(sessions_speakers)
                   THEN index' = index + 1 /\ pc' = "associations"
                   ELSE index' = index + 1 /\ pc' = "import_exit"
                /\ UNCHANGED <<exit_status, stdout>>
           ELSE /\ IF index < Len(sessions_speakers)
                   THEN index' = index + 1 /\ pc' = "associations"
                   ELSE index' = index + 1 /\ pc' = "import_exit"
                /\ UNCHANGED <<db, exit_status, stdout>>
    /\ UNCHANGED <<excel_df, session_ids, last_session_id, sessions_speakers,
                   speaker_ids>>
    /\ UNCHANGED <<lookup_vars, codec_vars>>

\* One iteration of the last loop of process_speaker_data
InsertAssociation ==
    /\ pc = "associations"
    /\ LET pair == sessions_speakers[index]
           r == insert(db["sessions_speakers"], sessions_speakers_table,
                       association_item(pair, speaker_ids))
       IN  IF r.ok
           THEN /\ db' = [db EXCEPT !["sessions_speakers"] = r.rows]
                /\ IF index < Len(sessions_speakers)
                   THEN index' = index + 1 /\ pc' = "associations"
                   ELSE index' = index + 1 /\ pc' = "import_exit"
                /\ UNCHANGED <<exit_status, stdout>>
           ELSE /\ ImportFails
                /\ UNCHANGED <<db, index>>
    /\ UNCHANGED <<excel_df, session_ids, last_session_id, sessions_speakers,
                   speaker_ids>>
    /\ UNCHANGED <<lookup_vars, codec_vars>>

----------------------------------------------------------------------------
(* lookup_agenda.py *)

\* The second join taken on the association's session_id
speaker_join_wrong_column ==
    << <<sessions_table, sessions_speakers_table, "id", "session_id">>,
       <<sessions_speakers_table, speakers_table, "session_id", "id">> >>

\* join=[(sessions, sessions_speakers, "id", "session_id"),
\*       (sessions_speakers, speakers, "speaker_id", "id")]
speaker_join ==
    << <<sessions_table, sessions_speakers_table, "id", "session_id">>,
       <<sessions_speakers_table, speakers_table, "speaker_id", "id">> >>

\* The expansion filter without its "id NOT" entry
expansion_where_no_guard(selected_session_ids) ==
    << <<"supersession_id", ListV(selected_session_ids)>> >>

\* where={"supersession_id": selected_session_ids, "id NOT": selected_session_ids}
expansion_where(selected_session_ids) ==
    << <<"supersession_id", ListV(selected_session_ids)>>,
       <<"id NOT", ListV(selected_session_ids)>> >>

\* The check for an empty primary match left out
no_matches_unchecked(sessions_match) == FALSE

\* if not sessions_match: raise ValueError
no_matches(sessions_match) == sessions_match = << >>

\* get_all_matches, with the selects it executes.  ok = FALSE is the
\* ValueError raised when the primary select matches nothing.
get_all_matches(d, col, val) ==
    LET primary ==
            IF col = "speaker"
            THEN select(d, sessions_table, << >>, speaker_join,
                        << <<"name", val>> >>)
            ELSE select(d, sessions_table, << >>, << >>, << <<col, val>> >>)
        selected_session_ids == [i \in 1..Len(primary) |-> primary[i].id]
        expansion ==
            select(d, sessions_table, << >>, << >>,
                   expansion_where(selected_session_ids))
    IN  IF no_matches(primary)
        THEN [ok |-> FALSE, sessions_match |-> << >>, queries |-> <<"primary">>]
        ELSE [ok |-> TRUE, sessions_match |-> primary \o expansion,
              queries |-> <<"primary", "expansion">>]

get_speaker_names(d, session) ==
    LET found == select(d, speakers_table, <<"name">>,
                        << <<speakers_table, sessions_speakers_table,
                             "id", "speaker_id">> >>,
                        << <<"session_id", session.id>> >>)
    IN  [i \in 1..Len(found) |-> found[i].name]

\* "; ".join(names)
RECURSIVE JoinNames(_)
JoinNames(names) ==
    IF Len(names) = 1 THEN Format(names[1])
    ELSE Format(names[1]) \o <<";", " ">> \o JoinNames(Tail(names))

\* print_session: the block printed for one session, as the text of each
\* "<key>: <text>" line
print_session(session, names) ==
    [c \in Range(DISPLAY_COLUMNS) |-> Format(session[c])]
    @@ [speakers |-> IF names # << >> THEN JoinNames(names)
                     ELSE <<"N", "o", "n", "e">>]

\* main of lookup_agenda.py for a validated query.  The program reads the
\* store and prints; it runs to its exit in one step.
Lookup(col, val) ==
    /\ ProgramNotRunning
    /\ db' = create_table(create_table(create_table(db, sessions_table),
                                       speakers_table), sessions_speakers_table)
    /\ LET m == get_all_matches(db', col, val)
       IN  /\ all_matched_sessions' = m.sessions_match
           /\ exit_status' = IF m.ok THEN 0 ELSE 1
           /\ queries' = m.queries
                         \o [i \in 1..Len(m.sessions_match) |-> "speakers"]
    /\ stdout' =
           IF exit_status' = 0
           THEN [i \in 1..Len(all_matched_sessions') |->
                    print_session(all_matched_sessions'[i],
                        get_speaker_names(db', all_matched_sessions'[i]))]
           ELSE <<[error |-> "Error occured"]>>
    /\ column' = col
    /\ value' = val
    /\ pc' = "lookup_exit"
    /\ excel_df' = << >> /\ index' = 1 /\ session_ids' = << >>
    /\ last_session_id' = None /\ sessions_speakers' = << >>
    /\ speaker_ids' = << >>
    /\ UNCHANGED codec_vars

----------------------------------------------------------------------------
(* The programs over one store *)

Min(a, b) == IF a < b THEN a ELSE b

StoredSessions == IF "sessions" \in DOMAIN db THEN Len(db["sessions"]) ELSE 0

Init ==
    /\ db = << >>
    /\ pc = "shell"
    /\ excel_df = << >> /\ index = 1 /\ session_ids = << >>
    /\ last_session_id = None /\ sessions_speakers = << >>
    /\ speaker_ids = << >>
    /\ column = None /\ value = None
    /\ all_matched_sessions = << >> /\ queries = << >>
    /\ stdout = << >> /\ exit_status = 0
    /\ codec_in = None /\ codec_out = None

Next ==
    \/ \E n \in 0..Min(MaxRows, MaxSessions - StoredSessions) :
           \E df \in Dataframes(n) : ImportStart(df)
    \/ ProcessSessionRow
    \/ ProcessSpeakerName
    \/ InsertAssociation
    \/ \E col \in LookupColumns, val \in LookupValues : Lookup(col, val)

Spec == Init /\ [][Next]_vars

----------------------------------------------------------------------------
(* The value codec on its own *)

CodecAlphabet == {"'", " ", "a"}

CodecStrings == UNION {[1..n -> CodecAlphabet] : n \in 0..MaxLen}

CodecValues == {StrV(s) : s \in CodecStrings} \cup {IntV(7), None}

CodecInit ==
    /\ codec_in \in CodecValues
    /\ codec_out = codec_in
    /\ pc = "codec"
    /\ db = << >>
    /\ excel_df = << >> /\ index = 1 /\ session_ids = << >>
    /\ last_session_id = None /\ sessions_speakers = << >>
    /\ speaker_ids = << >>
    /\ column = None /\ value = None
    /\ all_matched_sessions = << >> /\ queries = << >>
    /\ stdout = << >> /\ exit_status = 0

Preprocess ==
    /\ pc = "codec"
    /\ codec_out' = preprocess_value(codec_in)
    /\ pc' = "preprocessed"
    /\ UNCHANGED <<db, import_vars, lookup_vars, stdout, exit_status, codec_in>>

Postprocess ==
    /\ pc \in {"codec", "preprocessed"}
    /\ codec_out' = postprocess_value(codec_out)
    /\ pc' = IF pc = "codec" THEN "postprocessed" ELSE "round_trip"
    /\ UNCHANGED <<db, import_vars, lookup_vars, stdout, exit_status, codec_in>>

CodecNext == Preprocess \/ Postprocess

CodecSpec == CodecInit /\ [][CodecNext]_vars

----------------------------------------------------------------------------
(* A text stored by db_table.insert and read back by db_table.select *)

\* A sessions table just created, and the text about to be stored as a title
RoundTripInit ==
    /\ codec_in \in {StrV(s) : s \in CodecStrings}
    /\ codec_out = None
    /\ pc = "table"
    /\ db = create_table(<< >>, sessions_table)
    /\ excel_df = << >> /\ index = 1 /\ session_ids = << >>
    /\ last_session_id = None /\ sessions_speakers = << >>
    /\ speaker_ids = << >>
    /\ column = None /\ value = None
    /\ all_matched_sessions = << >> /\ queries = << >>
    /\ stdout = << >> /\ exit_status = 0

\* sessions_table.insert({"title": v})
RoundTripInsert ==
    /\ pc = "table"
    /\ LET done == insert(db[sessions_table.name], sessions_table,
                          << <<"title", codec_in>> >>)
       IN  /\ done.ok
           /\ db' = [db EXCEPT ![sessions_table.name] = done.rows]
    /\ pc' = "inserted"
    /\ UNCHANGED <<import_vars, lookup_vars, stdout, exit_status, codec_vars>>

\* sessions_table.select(columns=["title"])[0]["title"]
RoundTripSelect ==
    /\ pc = "inserted"
    /\ codec_out' = select(db, sessions_table, <<"title">>, << >>, << >>)[1].title
    /\ pc' = "selected"
    /\ UNCHANGED <<db, import_vars, lookup_vars, stdout, exit_status, codec_in>>

RoundTripNext == RoundTripInsert \/ RoundTripSelect

RoundTripSpec == RoundTripInit /\ [][RoundTripNext]_vars

----------------------------------------------------------------------------
(* Properties *)

Rows(t) == IF t \in DOMAIN db THEN db[t] ELSE << >>

SessionRow(id) == CHOOSE r \in Range(Rows("sessions")) : r.id = id

ImportPcs == {"sessions", "speakers", "associations", "import_exit"}

\* Index of the last row before row i whose type is "Session", 0 if none
LastSessionBefore(df, i) ==
    LET S == {j \in 1..(i - 1) : df[j].session_type = TypeSession}
    IN  IF S = {} THEN 0 ELSE CHOOSE j \in S : \A k \in S : k <= j

RECURSIVE Ascending(_)
Ascending(S) ==
    IF S = {} THEN << >>
    ELSE LET m == CHOOSE m \in S : \A n \in S : m <= n
         IN  <<m>> \o Ascending(S \ {m})

SpeakerRowsNamed(name) ==
    {i \in 1..Len(Rows("speakers")) : Rows("speakers")[i].name = name}

SpeakerIdOf(name) ==
    Rows("speakers")[CHOOSE i \in SpeakerRowsNamed(name) : TRUE].id

\* The association rows of the running import, in rowid order
RunAssociations ==
    LET mine(a) == a.session_id \in Range(session_ids)
    IN  SelectSeq(Rows("sessions_speakers"), mine)

\* C2: the speakers table never holds a name twice and holds names trimmed;
\* every name an import run has passed has exactly one speaker row, whose id
\* is the one the run keeps for the name and the one every association row
\* of the run for that name carries.
C2_SpeakersDeduplicated ==
    /\ \A i, j \in 1..Len(Rows("speakers")) :
           Rows("speakers")[i].name = Rows("speakers")[j].name => i = j
    /\ \A i \in 1..Len(Rows("speakers")) :
           Rows("speakers")[i].name.str = strip(Rows("speakers")[i].name.str)
    /\ pc \in ImportPcs =>
           /\ \A k \in 1..Len(sessions_speakers) :
                  LET name == sessions_speakers[k][2]
                  IN  /\ Cardinality(SpeakerRowsNamed(name)) = 1
                      /\ name \in DOMAIN speaker_ids
                      /\ speaker_ids[name] = SpeakerIdOf(name)
           /\ \A a \in Range(RunAssociations) :
                  \E k \in 1..Len(sessions_speakers) :
                      /\ sessions_speakers[k][1] = a.session_id
                      /\ SpeakerIdOf(sessions_speakers[k][2]) = a.speaker_id

\* A second run ended well on a store an earlier run filled: a name written
\* with other whitespace in the second run is associated, in both runs, with
\* the one speaker row
C2_Witness ==
    /\ pc = "import_exit" /\ exit_status = 0
    /\ Len(Rows("sessions")) > Len(session_ids)
    /\ \E i \in 1..Len(excel_df) : excel_df[i].speakers = TextAB
    /\ Cardinality(SpeakerRowsNamed(TextA)) = 1
    /\ \E a1, a2 \in Range(Rows("sessions_speakers")) :
           /\ a1.session_id \notin Range(session_ids)
           /\ a2.session_id \in Range(session_ids)
           /\ a1.speaker_id = SpeakerIdOf(TextA)
           /\ a2.speaker_id = SpeakerIdOf(TextA)

\* The association rows the pairs of the dataframe call for, in first-seen
\* order: the id of the pair's own row and the id of the speaker of that name
ExpectedAssociations ==
    LET names == AllNames(excel_df)
    IN  [k \in 1..Len(names) |->
            [session_id |-> session_ids[names[k][1]],
             speaker_id |-> SpeakerIdOf(names[k][2])]]

\* Index of the first element equal to an earlier one, Len + 1 if none
FirstRepeat(seq) ==
    LET R == {k \in 1..Len(seq) : \E j \in 1..(k - 1) : seq[j] = seq[k]}
    IN  IF R = {} THEN Len(seq) + 1 ELSE CHOOSE k \in R : \A n \in R : k <= n

\* C3 as stated: when an import run has ended, the association rows it added
\* are one per pending pair, in first-seen order.
C3_OneRowPerPendingPair ==
    pc = "import_exit" => RunAssociations = ExpectedAssociations

\* C3 amended: when an import run has ended, the association rows it added are
\* those of the pending pairs, in first-seen order, each with the id of the
\* pair's own row and of the speaker of that name, up to the first pair that
\* repeats an earlier pair; all of them when no pair repeats.
C3_RowsUpToFirstRepeat ==
    pc = "import_exit" =>
        RunAssociations =
            SubSeq(ExpectedAssociations, 1, FirstRepeat(ExpectedAssociations) - 1)

\* A run ended well with three or more pairs, one of them of a "Sub" row that
\* has a supersession
C3_Witness ==
    /\ pc = "import_exit" /\ exit_status = 0
    /\ Len(RunAssociations) >= 3
    /\ \E i \in 1..Len(excel_df) :
           /\ excel_df[i].session_type = TypeSub
           /\ excel_df[i].speakers # NaN
           /\ LastSessionBefore(excel_df, i) # 0

\* A stored session answers the query of the last lookup
Matches(r) ==
    IF column = "speaker"
    THEN \E a \in Range(Rows("sessions_speakers")) :
             \E sp \in Range(Rows("speakers")) :
                 a.session_id = r.id /\ a.speaker_id = sp.id /\ sp.name = value
    ELSE r[column] = value

PrimaryIds == {r.id.int : r \in {r \in Range(Rows("sessions")) : Matches(r)}}

SubsessionIdsOf(ids) ==
    {r.id.int : r \in {r \in Range(Rows("sessions")) :
                          /\ IsInt(r.supersession_id)
                          /\ r.supersession_id.int \in ids
                          /\ r.id.int \notin ids}}

MatchedIds ==
    [i \in 1..Len(all_matched_sessions) |-> all_matched_sessions[i].id.int]

\* C4: a lookup that matches returns the sessions matching the query in id
\* order, then the sessions whose supersession is one of them and which are
\* not among them, in id order, and prints one record for each.
C4_PrimaryThenSubsessions ==
    (pc = "lookup_exit" /\ PrimaryIds # {}) =>
        /\ MatchedIds = Ascending(PrimaryIds) \o Ascending(SubsessionIdsOf(PrimaryIds))
        /\ Len(stdout) = Len(MatchedIds)
        /\ \A i \in 1..Len(stdout) : "title" \in DOMAIN stdout[i]

\* A title lookup matching one session that has two subsessions: three records
C4_Witness ==
    /\ pc = "lookup_exit" /\ column = "title"
    /\ Cardinality(PrimaryIds) = 1
    /\ Cardinality(SubsessionIdsOf(PrimaryIds)) = 2
    /\ Len(stdout) = 3

\* C5: a lookup that matches no session exits with status 1 having executed
\* the primary select only, and prints no session record.
C5_NoMatchesFailsFirst ==
    (pc = "lookup_exit" /\ PrimaryIds = {}) =>
        /\ exit_status = 1
        /\ queries = <<"primary">>
        /\ all_matched_sessions = << >>
        /\ \A i \in 1..Len(stdout) : "title" \notin DOMAIN stdout[i]

\* A lookup that matches nothing in a store that holds sessions and speakers
C5_Witness ==
    /\ pc = "lookup_exit" /\ PrimaryIds = {}
    /\ Rows("sessions") # << >> /\ Rows("speakers") # << >>
    /\ exit_status = 1

AttendedBy(name) ==
    {a.session_id.int : a \in {a \in Range(Rows("sessions_speakers")) :
        \E sp \in Range(Rows("speakers")) : sp.id = a.speaker_id /\ sp.name = name}}

\* The last lookup asked for a speaker of exactly two sessions, neither the
\* supersession of the other
TwoUnrelatedSessions ==
    /\ pc = "lookup_exit" /\ column = "speaker"
    /\ Cardinality(AttendedBy(value)) = 2
    /\ \A s1, s2 \in AttendedBy(value) :
           SessionRow(IntV(s1)).supersession_id # IntV(s2)

\* C6 as stated: such a lookup prints exactly two records.
C6_ExactlyTwoRecords == TwoUnrelatedSessions => Len(stdout) = 2

\* C6 amended: such a lookup prints the two sessions and then one record for
\* every subsession of either; exactly two when neither has a subsession.
C6_TwoRecordsAndSubsessions ==
    TwoUnrelatedSessions =>
        /\ Len(stdout) = 2 + Cardinality(SubsessionIdsOf(AttendedBy(value)))
        /\ SubSeq(MatchedIds, 1, 2) = Ascending(AttendedBy(value))

\* Such a lookup where neither session has a subsession
C6_Witness ==
    /\ TwoUnrelatedSessions
    /\ SubsessionIdsOf(AttendedBy(value)) = {}
    /\ Len(stdout) = 2

\* C7 as stated: a "Sub" row of an import run with no "Session" row before it
\* is stored with a NULL supersession_id.
C7_SubBeforeSessionIsNull ==
    pc \in ImportPcs =>
        \A i \in 1..Len(session_ids) :
            (/\ excel_df[i].session_type = TypeSub
             /\ LastSessionBefore(excel_df, i) = 0)
            => SessionRow(session_ids[i]).supersession_id = None

TableRows ==
    [t \in {"sessions", "speakers", "sessions_speakers"} |-> Rows(t)]

\* C9: a step of the lookup program, whether it matches or not, leaves the
\* rows of the three tables as they were.
C9_LookupReadOnly == [][pc' = "lookup_exit" => TableRows' = TableRows]_vars

\* A lookup has run on a store that holds sessions, speakers and associations
C9_Witness ==
    /\ pc = "lookup_exit"
    /\ Rows("sessions") # << >> /\ Rows("speakers") # << >>
    /\ Rows("sessions_speakers") # << >>

\* C10: decoding the encoding of a text gives the text without its leading
\* and trailing whitespace; a value that is not a text passes through either
\* function unchanged.
C10_CodecRoundTrip ==
    /\ (pc = "round_trip" /\ IsStr(codec_in)) =>
           codec_out = StrV(strip(codec_in.str))
    /\ ~IsStr(codec_in) => codec_out = codec_in

\* A round trip of a text with a run of two apostrophes inside whitespace
C10_Witness ==
    /\ pc = "round_trip"
    /\ codec_in = StrV(<<" ", "'", "'", "a">>)
    /\ codec_out = StrV(<<"'", "'", "a">>)

SessionIdSet == {r.id : r \in Range(Rows("sessions"))}

SpeakerIdSet == {r.id : r \in Range(Rows("speakers"))}

\* The association rows reference stored sessions and stored speakers
AssociationsReferToRows ==
    \A a \in Range(Rows("sessions_speakers")) :
        a.session_id \in SessionIdSet /\ a.speaker_id \in SpeakerIdSet

\* C11 as stated: in every state of the store, during and after import runs,
\* a supersession_id that is not NULL is the id of a stored session, and the
\* two ids of an association row are those of a stored session and a stored
\* speaker.
C11_ReferentialIntegrity ==
    /\ \A r \in Range(Rows("sessions")) :
           r.supersession_id # None => r.supersession_id \in SessionIdSet
    /\ AssociationsReferToRows

\* C12: the list a lookup returns holds no session id twice, whether the
\* query is on the speaker or on a column of the sessions: the sessions of the
\* primary match are pairwise distinct and the expansion adds none of them
\* again.
C12_NoSessionTwice ==
    pc = "lookup_exit" =>
        \A i, j \in 1..Len(MatchedIds) : MatchedIds[i] = MatchedIds[j] => i = j

\* A speaker lookup matching a session and its own subsession, both attended
\* by the speaker: each is returned once
C12_Witness ==
    /\ pc = "lookup_exit" /\ column = "speaker" /\ exit_status = 0
    /\ \E s1, s2 \in PrimaryIds :
           SessionRow(IntV(s2)).supersession_id = IntV(s1)
    /\ Len(MatchedIds) = Cardinality(PrimaryIds)

\* No session that has a supersession_id set is the supersession of a session
DepthAtMostOne ==
    \A r, t \in Range(Rows("sessions")) :
        t.supersession_id = r.id => r.supersession_id = None

\* Every supersession_id that is an id is that of a stored session with a
\* smaller id
IdLinksPointBack ==
    \A r \in Range(Rows("sessions")) :
        IsInt(r.supersession_id) =>
            /\ r.supersession_id \in SessionIdSet
            /\ r.supersession_id.int < r.id.int

\* C13 as stated: in every store the imports produce, a session that has a
\* supersession_id set is not the supersession of any session, and every
\* supersession_id that is set is the id of a stored session with a strictly
\* smaller id.
C13_HierarchyDepthOne ==
    /\ DepthAtMostOne
    /\ \A r \in Range(Rows("sessions")) :
           r.supersession_id # None =>
               \E t \in Range(Rows("sessions")) :
                   /\ t.id = r.supersession_id
                   /\ IsInt(t.id) /\ t.id.int < r.id.int

\* What select returns for a stored text: the text trimmed, with every pair
\* of apostrophes left in it made one
SelectCollapsesApostrophes ==
    pc = "selected" =>
        codec_out = StrV(replace(strip(codec_in.str), TwoApostrophes, Apostrophe))

\* C14 as stated: a text stored through insert and read back through select
\* comes back as the text without its leading and trailing whitespace,
\* whatever apostrophes it holds.
C14_InsertSelectRoundTrip ==
    pc = "selected" => codec_out = StrV(strip(codec_in.str))

====
